---- MODULE Spec2Model ----
(***************************************************************************)
(* Model of the MonteCarloPi class (Monte Carlo estimation of pi on a      *)
(* canvas, with a delay slider, a pause/resume button and a reset button). *)
(*                                                                         *)
(* Every event handler of the page runs to completion (JavaScript is       *)
(* single threaded), so each handler is one action.  setTimeout is a set   *)
(* of pending one-shot timers; a timer fires at most once and clearTimeout *)
(* removes it from the set.  Math.random() is a draw k / RandSteps.        *)
(* Floating-point values (the pi estimate and the z-score) are kept in     *)
(* fixed point: the scales are named below.                                *)
(***************************************************************************)
EXTENDS Integers, Sequences, FiniteSets

VARIABLES
    isRunning,  \* this.isRunning
    timeoutId,  \* this.timeoutId (Null, or the id of the last timer set)
    pauseBtn,   \* this.pauseBtn: "null", or the button's textContent
    slider,     \* this.slider.value, a string of decimal digits
    total,      \* this.total
    inside,     \* this.inside
    timers,     \* the page's pending setTimeout timers: [id, delay]
    dot,        \* the last dot drawn on the canvas: <<>> or <<[x, y, isInside]>>
    stats,      \* the statistics text on the canvas, as drawStats left it
    lastCall    \* the handler that ran last

vars == <<isRunning, timeoutId, pauseBtn, slider, total, inside, timers, dot,
          stats, lastCall>>

----------------------------------------------------------------------------
(* Bounds of the model *)

\* Ticks are not taken once total has reached MaxTotal.
MaxTotal == 3

\* Math.random() returns k / RandSteps for k in 0 .. RandSteps - 1.
RandSteps == 4

\* The classifier is probed on a grid of (ProbeSteps + 1)^2 points that
\* covers the square's closed bounding box.
ProbeSteps == 10

\* The estimator is probed on every pair 0 <= inside <= total <= MaxSamples.
MaxSamples == 100

----------------------------------------------------------------------------
(* Geometry configuration and other literals of the class *)

squareSize == 500

offset == 50

radius == squareSize \div 2

centerX == offset + radius

centerY == offset + radius

\* timeoutId = null
Null == 0

\* The slider's values the model draws from: min, default and max.
SliderMin == <<0>>

SliderDefault == <<5, 0, 0>>

SliderMax == <<1, 0, 0, 0>>

SliderValues == {SliderMin, SliderDefault, SliderMax}

\* Math.PI / 4 = 0.78539816..., in units of 1 / PScale.
PScale == 10000

PQuarter == 7854

----------------------------------------------------------------------------
(* Helpers *)

\* parseInt(s, 10) of a string of decimal digits
RECURSIVE parseInt(_)
parseInt(s) ==
    IF Len(s) = 0 THEN 0
    ELSE 10 * parseInt(SubSeq(s, 1, Len(s) - 1)) + s[Len(s)]

\* Math.sqrt on the integers: the largest r with r * r <= v, found bit by
\* bit from the highest (a * a <= v is written a <= v \div a, which cannot
\* overflow).  The singleton sets bind each level's arguments to their values.
RECURSIVE isqrtFrom(_, _, _)
isqrtFrom(v, r, bit) ==
    IF bit = 0 THEN r
    ELSE CHOOSE s \in {isqrtFrom(w, q, b) :
                          w \in {v},
                          q \in {IF r + bit <= v \div (r + bit) THEN r + bit ELSE r},
                          b \in {bit \div 2}} : TRUE

isqrt(v) == isqrtFrom(v, 0, 32768)

\* a / b rounded to the nearest integer, halves away from zero (b > 0)
RoundDiv(a, b) ==
    IF a >= 0 THEN (2 * a + b) \div (2 * b)
    ELSE -((2 * (-a) + b) \div (2 * b))

\* Math.random() * this.squareSize + this.offset, for the draw k / RandSteps
randomCoord(k) == (k * squareSize) \div RandSteps + offset

\* isInside with <= for <: the points on the circle counted inside
isInside_closed(x, y) ==
    LET dx == x - centerX
        dy == y - centerY
    IN  dx * dx + dy * dy <= radius * radius

\* const isInside = dx * dx + dy * dy < this.radius * this.radius
isInside(x, y) ==
    LET dx == x - centerX
        dy == y - centerY
    IN  dx * dx + dy * dy < radius * radius

----------------------------------------------------------------------------
(* The estimator: drawStats and computeZScore *)

\* The z-score is the fraction num / den with den > 0.
ZeroZ == [num |-> 0, den |-> 1]

\* computeZScore with the difference taken the wrong way round (p - observed)
computeZScore_flipped(n, ins) ==
    IF n = 0 THEN ZeroZ
    ELSE LET std == isqrt(n * PQuarter * (PScale - PQuarter))
         IN  IF std = 0 THEN ZeroZ
             ELSE [num |-> n * PQuarter - ins * PScale, den |-> std]

\* computeZScore(): with p = PQuarter / PScale and observed = ins / n,
\* (observed - p) / sqrt(p * (1 - p) / n)
\*   = (ins * PScale - n * PQuarter) / sqrt(n * PQuarter * (PScale - PQuarter))
computeZScore(n, ins) ==
    IF n = 0 THEN ZeroZ
    ELSE LET std == isqrt(n * PQuarter * (PScale - PQuarter))
         IN  IF std = 0 THEN ZeroZ
             ELSE [num |-> ins * PScale - n * PQuarter, den |-> std]

\* z.toFixed(2), in hundredths
toFixed2(z) == RoundDiv(100 * z.num, z.den)

\* ((this.inside / this.total) * 4).toFixed(6), in millionths (n > 0)
piEstimate(n, ins) == RoundDiv(4000000 * ins, n)

\* drawStats without the test total > 0: 0 / 0 is NaN in JavaScript
drawStats_unguarded(n, ins) ==
    [header |-> <<n, ins>>,
     pi     |-> IF n = 0 THEN <<"NaN">> ELSE <<piEstimate(n, ins)>>,
     z      |-> <<toFixed2(computeZScore(n, ins))>>]

\* drawStats(): the header line is always drawn, the estimate and the z-score
\* only when total > 0
drawStats(n, ins) ==
    [header |-> <<n, ins>>,
     pi     |-> IF n > 0 THEN <<piEstimate(n, ins)>> ELSE <<>>,
     z      |-> IF n > 0 THEN <<toFixed2(computeZScore(n, ins))>> ELSE <<>>]

\* The canvas before drawStats has run
NoStats == [header |-> <<>>, pi |-> <<>>, z |-> <<>>]

----------------------------------------------------------------------------
(* Timers *)

\* clearTimeout(id): a pending timer with this id is dropped
clearTimeout(tm, id) == {t \in tm : t.id # id}

\* The id setTimeout returns: one that no pending timer has and that the
\* program does not hold (ids are opaque handles, so the least such one).
newTimerId(tm, held) ==
    CHOOSE i \in 1 .. (Cardinality(tm) + 2) :
        /\ i # held
        /\ \A t \in tm : t.id # i

\* animate() without its setTimeout line
setTimeout_dropped(tm, id, interval) == tm

\* setTimeout(() => this.animate(), interval)
setTimeout(tm, id, interval) == tm \cup {[id |-> id, delay |-> interval]}

----------------------------------------------------------------------------
(* The counters *)

\* animate() without ++this.total
incTotal_forgotten(n) == n

\* ++this.total
incTotal(n) == n + 1

\* ++this.inside whatever the classification
incInside_always(ins, isIn) == ins + 1

\* if (isInside) ++this.inside
incInside(ins, isIn) == IF isIn THEN ins + 1 ELSE ins

\* reset() that clears total only
resetCounters_totalOnly(n, ins) == [total |-> 0, inside |-> ins]

\* this.total = 0; this.inside = 0
resetCounters(n, ins) == [total |-> 0, inside |-> 0]

----------------------------------------------------------------------------
(* pause() *)

\* pause() without its clearTimeout line
pause_noClear(tm, id) ==
    [isRunning |-> FALSE, timers |-> tm, pauseBtn |-> "Resume"]

\* pause() with the null test inverted
pause_nullTest(tm, id) ==
    [isRunning |-> FALSE,
     timers    |-> IF id = Null THEN clearTimeout(tm, id) ELSE tm,
     pauseBtn  |-> "Resume"]

\* pause(): the fields it writes and the page's timers after it
pause(tm, id) ==
    [isRunning |-> FALSE,
     timers    |-> IF id # Null THEN clearTimeout(tm, id) ELSE tm,
     pauseBtn  |-> "Resume"]

----------------------------------------------------------------------------
(* animate() *)

\* animate(), called with isRunning = run and the pending timers tm, the two
\* Math.random() draws being rx / RandSteps and ry / RandSteps
animate(run, tm, rx, ry) ==
    IF ~run
    THEN /\ timers' = tm
         /\ UNCHANGED <<total, inside, dot, stats, timeoutId>>
    ELSE LET interval == parseInt(slider)
             x        == randomCoord(rx)
             y        == randomCoord(ry)
             isIn     == isInside(x, y)
             id       == newTimerId(tm, timeoutId)
         IN  /\ dot' = <<[x |-> x, y |-> y, isInside |-> isIn]>>
             /\ total' = incTotal(total)
             /\ inside' = incInside(inside, isIn)
             /\ stats' = drawStats(total', inside')
             /\ timeoutId' = id
             /\ timers' = setTimeout(tm, id, interval)

Draws == 0 .. (RandSteps - 1)

----------------------------------------------------------------------------
(* The state after the class field initializers, and the handlers *)

Init ==
    /\ isRunning = FALSE
    /\ timeoutId = Null
    /\ pauseBtn = "null"
    /\ slider = SliderDefault
    /\ total = 0
    /\ inside = 0
    /\ timers = {}
    /\ dot = <<>>
    /\ stats = NoStats
    /\ lastCall = "fields"

\* new MonteCarloPi(autoStart)
Constructor ==
    /\ pauseBtn = "null"
    /\ pauseBtn' = "Pause"
    /\ slider' = SliderDefault
    /\ \E autoStart \in BOOLEAN :
          IF autoStart
          THEN /\ isRunning' = TRUE
               /\ \E rx \in Draws, ry \in Draws : animate(TRUE, timers, rx, ry)
          ELSE UNCHANGED <<isRunning, timeoutId, total, inside, timers, dot,
                           stats>>
    /\ lastCall' = "constructor"

\* the slider is moved
SliderInput ==
    /\ pauseBtn # "null"
    /\ \E v \in SliderValues : slider' = v
    /\ lastCall' = "slider"
    /\ UNCHANGED <<isRunning, timeoutId, pauseBtn, total, inside, timers, dot,
                   stats>>

\* a timer fires: () => this.animate()
TimerFire ==
    /\ lastCall' = "timer"
    /\ UNCHANGED <<isRunning, pauseBtn, slider>>
    /\ isRunning => total < MaxTotal
    /\ \E t \in timers, rx \in Draws, ry \in Draws :
          animate(isRunning, timers \ {t}, rx, ry)

\* a click on the pause button while running: this.pause()
PauseClick ==
    /\ pauseBtn # "null"
    /\ isRunning
    /\ LET p == pause(timers, timeoutId)
       IN  /\ isRunning' = p.isRunning
           /\ timers' = p.timers
           /\ pauseBtn' = p.pauseBtn
    /\ lastCall' = "pause"
    /\ UNCHANGED <<timeoutId, slider, total, inside, dot, stats>>

\* a click on the pause button while not running: this.resume()
ResumeClick ==
    /\ pauseBtn # "null"
    /\ ~isRunning
    /\ total < MaxTotal
    /\ IF ~isRunning
       THEN /\ isRunning' = TRUE
            /\ pauseBtn' = "Pause"
            /\ \E rx \in Draws, ry \in Draws : animate(TRUE, timers, rx, ry)
       ELSE UNCHANGED <<isRunning, pauseBtn, timeoutId, total, inside, timers,
                        dot, stats>>
    /\ lastCall' = "resume"
    /\ UNCHANGED slider

\* a click on the reset button: this.reset()
ResetClick ==
    /\ pauseBtn # "null"
    /\ LET p == pause(timers, timeoutId)
           c == resetCounters(total, inside)
       IN  /\ isRunning' = p.isRunning
           /\ timers' = p.timers
           /\ pauseBtn' = p.pauseBtn
           /\ total' = c.total
           /\ inside' = c.inside
           /\ dot' = <<>>
           /\ stats' = drawStats(c.total, c.inside)
    /\ lastCall' = "reset"
    /\ UNCHANGED <<timeoutId, slider>>

Next ==
    \/ Constructor
    \/ SliderInput
    \/ TimerFire
    \/ PauseClick
    \/ ResumeClick
    \/ ResetClick

Spec == Init /\ [][Next]_vars

\* Timers are served: a pending timer that stays pending eventually fires.
FairSpec == Spec /\ WF_vars(TimerFire)

----------------------------------------------------------------------------
(* The classifier on its own: every point of a grid over the closed box    *)
(* [offset, offset + squareSize]^2 is classified and drawn.                *)

probeCoord(k) == offset + (k * squareSize) \div ProbeSteps

ClassifyPoint ==
    /\ \E kx \in 0 .. ProbeSteps, ky \in 0 .. ProbeSteps :
          LET x == probeCoord(kx)
              y == probeCoord(ky)
          IN  dot' = <<[x |-> x, y |-> y, isInside |-> isInside(x, y)]>>
    /\ lastCall' = "classify"
    /\ UNCHANGED <<isRunning, timeoutId, pauseBtn, slider, total, inside,
                   timers, stats>>

SpecClassify == Init /\ [][ClassifyPoint]_vars

----------------------------------------------------------------------------
(* The estimator on its own: drawStats on every pair of counters with      *)
(* 0 <= inside <= total <= MaxSamples.                                     *)

InitEstimate ==
    /\ total \in 0 .. MaxSamples
    /\ inside \in 0 .. total
    /\ isRunning = FALSE
    /\ timeoutId = Null
    /\ pauseBtn = "Resume"
    /\ slider = SliderDefault
    /\ timers = {}
    /\ dot = <<>>
    /\ stats = NoStats
    /\ lastCall = "fields"

Estimate ==
    /\ stats' = drawStats(total, inside)
    /\ lastCall' = "drawStats"
    /\ UNCHANGED <<isRunning, timeoutId, pauseBtn, slider, total, inside,
                   timers, dot>>

SpecEstimate == InitEstimate /\ [][Estimate]_vars

----------------------------------------------------------------------------
(* pi.js: the same class without the pause and reset buttons.  It has no   *)
(* isRunning, timeoutId or pauseBtn field: here isRunning records that the *)
(* constructor has started the loop, pauseBtn that the constructor has     *)
(* run, and timeoutId stays Null.                                          *)

\* animate() of pi.js: no test of isRunning, the timer's id is not kept
animatePlain(tm, rx, ry) ==
    LET interval == parseInt(slider)
        x        == randomCoord(rx)
        y        == randomCoord(ry)
        isIn     == isInside(x, y)
    IN  /\ dot' = <<[x |-> x, y |-> y, isInside |-> isIn]>>
        /\ total' = incTotal(total)
        /\ inside' = incInside(inside, isIn)
        /\ stats' = drawStats(total', inside')
        /\ timers' = setTimeout(tm, newTimerId(tm, Null), interval)
        /\ UNCHANGED timeoutId

\* new MonteCarloPi(autoStart) of pi.js
ConstructorPlain ==
    /\ pauseBtn = "null"
    /\ pauseBtn' = "none"
    /\ slider' = SliderDefault
    /\ \E autoStart \in BOOLEAN :
          IF autoStart
          THEN /\ isRunning' = TRUE
               /\ \E rx \in Draws, ry \in Draws : animatePlain(timers, rx, ry)
          ELSE UNCHANGED <<isRunning, timeoutId, total, inside, timers, dot,
                           stats>>
    /\ lastCall' = "constructor"

\* a timer fires: () => this.animate()
TimerFirePlain ==
    /\ lastCall' = "timer"
    /\ UNCHANGED <<isRunning, pauseBtn, slider>>
    /\ total < MaxTotal
    /\ \E t \in timers, rx \in Draws, ry \in Draws :
          animatePlain(timers \ {t}, rx, ry)

NextPlain ==
    \/ ConstructorPlain
    \/ SliderInput
    \/ TimerFirePlain

SpecPlain == Init /\ [][NextPlain]_vars

FairSpecPlain == SpecPlain /\ WF_vars(TimerFirePlain)

----------------------------------------------------------------------------
(* Properties *)

\* A step in which the body of animate() ran (a tick).
TickStep ==
    \/ lastCall' = "timer" /\ isRunning
    \/ lastCall' = "resume"
    \/ lastCall' = "constructor" /\ isRunning'

\* C1: in every reachable state, after any sequence of ticks, pause, resume
\* and reset from the counters (0, 0), 0 <= inside <= total.
C1_CountersInvariant == 0 <= inside /\ inside <= total

C1_Witness == lastCall = "resume" /\ total = 3 /\ inside = 2

\* C2: every tick that runs while the simulation is running adds exactly 1 to
\* total, and adds exactly 1 to inside if and only if the sampled point is
\* classified inside (otherwise inside is unchanged); no tick decreases either.
C2_TickCounts ==
    [][TickStep =>
          /\ Len(dot') = 1
          /\ total' = total + 1
          /\ inside' = inside + (IF dot'[1].isInside THEN 1 ELSE 0)
          /\ total' >= total /\ inside' >= inside]_vars

C2_Witness ==
    /\ lastCall = "timer"
    /\ total = 2 /\ inside = 1
    /\ Len(dot) = 1 /\ ~dot[1].isInside

\* The state in which pause() has run and resume() has not run since.
Paused == pauseBtn = "Resume"

\* C3 as stated: once pause() has run, no tick executes and total and inside
\* stay unchanged until resume() is called.
C3_PausedFrozen ==
    [][Paused /\ lastCall' # "resume" =>
          /\ lastCall' # "timer"
          /\ total' = total /\ inside' = inside]_vars

\* C3 as amended: once pause() has run, no timer callback and no tick runs
\* until resume() is called, and total and inside stay unchanged until then
\* except that reset() sets both to 0.
C3_PausedNoTick ==
    [][Paused /\ lastCall' # "resume" =>
          /\ lastCall' # "timer"
          /\ \/ total' = total /\ inside' = inside
             \/ lastCall' = "reset" /\ total' = 0 /\ inside' = 0]_vars

\* pause() ran with a timer pending (timeoutId holds its id) and cleared it.
C3_Witness ==
    /\ lastCall = "pause"
    /\ timeoutId # Null /\ timers = {}
    /\ parseInt(slider) = 0
    /\ total = 2

\* C4: reset() in any state leaves total = 0 and inside = 0 with the
\* simulation not running (so a second reset() gives (0, 0) again), and the
\* counters stay (0, 0) until resume() is called.
C4_ResetClears ==
    [][/\ lastCall' = "reset" =>
             total' = 0 /\ inside' = 0 /\ ~isRunning' /\ stats'.header = <<0, 0>>
       /\ (Paused /\ total = 0 /\ lastCall' # "resume") =>
             total' = 0 /\ inside' = 0 /\ ~isRunning']_vars

\* reset() from the running state, after ticks
C4_Witness ==
    /\ lastCall = "reset"
    /\ timeoutId # Null
    /\ total = 0 /\ inside = 0 /\ ~isRunning /\ timers = {}

\* C5: at most one scheduled tick is pending at any time: exactly one while
\* running (the one timeoutId names), none while not running.
C5_OneTimer ==
    /\ Cardinality(timers) <= 1
    /\ isRunning => Cardinality(timers) = 1 /\ \A t \in timers : t.id = timeoutId
    /\ ~isRunning => timers = {}

\* running again after a pause, the timer set with delay 0
C5_Witness ==
    /\ lastCall = "resume"
    /\ total = 3
    /\ Cardinality(timers) = 1
    /\ \A t \in timers : t.delay = 0

\* C6: a point is inside iff (x - centerX)^2 + (y - centerY)^2 < radius^2,
\* strictly, so a point at distance radius is outside; with squareSize = 500
\* and offset = 50 the radius is 250 and the center (300, 300), (300, 300) is
\* inside, (50, 50) is outside and (550, 300) is outside.
C6_Classifier ==
    /\ radius = 250 /\ centerX = 300 /\ centerY = 300
    /\ \A i \in 1 .. Len(dot) :
          LET d  == dot[i]
              d2 == (d.x - 300) * (d.x - 300) + (d.y - 300) * (d.y - 300)
          IN  /\ d.isInside <=> d2 < 250 * 250
              /\ d2 = 250 * 250 => ~d.isInside
              /\ (d.x = 300 /\ d.y = 300) => d.isInside
              /\ (d.x = 50 /\ d.y = 50) => ~d.isInside
              /\ (d.x = 550 /\ d.y = 300) => ~d.isInside

C6_Witness == dot = <<[x |-> 550, y |-> 300, isInside |-> FALSE]>>

\* C7: whenever total = 0 the z-score is 0 and no pi estimate (and no
\* z-score) is drawn; a pi estimate is drawn only when total > 0, and it is
\* 4 * inside / total.
C7_ZeroTotal ==
    /\ total = 0 =>
          /\ computeZScore(total, inside) = ZeroZ
          /\ toFixed2(computeZScore(total, inside)) = 0
          /\ Len(stats.pi) = 0 /\ Len(stats.z) = 0
    /\ Len(stats.pi) > 0 =>
          /\ total > 0
          /\ stats.pi[1] = RoundDiv(4 * 1000000 * inside, total)

\* after a reset that followed ticks: the header shows 0 and 0, no estimate
C7_Witness ==
    /\ lastCall = "reset"
    /\ timeoutId # Null
    /\ total = 0
    /\ stats.header = <<0, 0>> /\ stats.pi = <<>>

\* C8: for total > 0 the z-score is (inside / total - p) / sqrt(p (1 - p) /
\* total) with p = pi / 4, so it is positive when inside / total > pi / 4
\* and negative when inside / total < pi / 4 (3.1415 < pi < 3.1416); with
\* inside = total = 100 it is above 5.
C8_ZScore ==
    total > 0 =>
        LET z == computeZScore(total, inside)
            v == total * PQuarter * (PScale - PQuarter)
        IN  /\ z.den > 0
            /\ z.den * z.den <= v /\ v < (z.den + 1) * (z.den + 1)
            /\ z.num = inside * PScale - total * PQuarter
            /\ 40000 * inside >= 31416 * total => z.num > 0
            /\ 40000 * inside <= 31415 * total => z.num < 0
            /\ (inside = total /\ total = 100) => toFixed2(z) > 500
            /\ Len(stats.z) > 0 => stats.z[1] = RoundDiv(100 * z.num, z.den)

C8_Witness == total = 100 /\ inside = 100 /\ stats.z = <<523>>

\* C10: the cycle has no terminal state: while running every tick has set
\* its successor, so when timers are served the next tick runs and total
\* grows (here up to MaxTotal) unless the simulation is paused or reset; and
\* resume() from the paused state makes it running.
C10_TicksContinue ==
    /\ \A n \in 0 .. (MaxTotal - 1) :
          (isRunning /\ total = n) ~> (total = n + 1 \/ ~isRunning)
    /\ [](isRunning => timers # {})
    /\ [][(Paused /\ lastCall' = "resume") => isRunning']_vars

C10_Witness ==
    /\ lastCall = "timer"
    /\ isRunning /\ total = 3 /\ inside = 3
    /\ timers # {}

====
